---------------------------- MODULE Spec2Model ----------------------------
(***************************************************************************)
(* Model of analysis/RMA.py: RMARegression(X, Y, alpha), the reduced major *)
(* axis regression with the Ricker and the Jolicoeur-Mosimann/McArdle      *)
(* confidence intervals.                                                   *)
(*                                                                         *)
(* A float is modelled as a record: a finite value is a fixed-point number *)
(* with SCALE units per 1.0 (every operation rounds toward zero, which is  *)
(* monotone and sign-symmetric as IEEE rounding is), and NaN, +Inf and     *)
(* -Inf are values of their own that propagate as IEEE 754 and numpy       *)
(* propagate them (numpy warns on 0/0, x/0 and sqrt(-x); it does not       *)
(* raise).  Signed zeros are not modelled.                                 *)
(***************************************************************************)
EXTENDS Integers, Sequences, FiniteSets, TLC

\* ------------------------------------------------------------- bounds
\* Fixed-point units per 1.0.  With 1200 the means, variances and covariances
\* of integer samples of up to four elements are represented exactly.
SCALE == 1200
\* Longest input sequence.
MaxLen == 3
\* Largest factor of the rescaled call (k, m in 1..MaxFactor).
MaxFactor == 2
\* The values the elements of X and Y are drawn from.
Vals == {-1, 0, 2}
\* The values of alpha, in hundredths: below 0, 0, the default 0.05, 0.5, 1,
\* above 1.
Alphas == {-50, 0, 5, 50, 100, 150}

\* ------------------------------------------------------------- floats
Fin(x) == [k |-> "fin", v |-> x]
NaN == [k |-> "nan", v |-> 0]
Inf(s) == [k |-> "inf", v |-> s]
\* A local that has not been assigned yet.
Unset == [k |-> "unset", v |-> 0]

Abs(x) == IF x < 0 THEN 0 - x ELSE x
Sgn(x) == IF x > 0 THEN 1 ELSE IF x < 0 THEN 0 - 1 ELSE 0
\* p / q rounded toward zero (q # 0).
TruncDiv(p, q) == Sgn(p) * Sgn(q) * (Abs(p) \div Abs(q))

\* p * q / d rounded toward zero (d > 0), computed without forming p * q.
MulDiv(p, q, d) ==
    LET a == Abs(p)
        c == Abs(q)
    IN  Sgn(p) * Sgn(q) * ((a \div d) * c + ((a % d) * c) \div d)

IsFin(a) == a.k = "fin"
IsNaN(a) == a.k = "nan"
IsInf(a) == a.k = "inf"
\* The sign of a non-NaN float: -1, 0 or 1.
FSgn(a) == IF IsInf(a) THEN a.v ELSE Sgn(a.v)

\* The float of a Python int.
OfInt(i) == Fin(i * SCALE)
\* The float of a decimal literal given in hundredths.
OfPct(p) == Fin(TruncDiv(p * SCALE, 100))

FNeg(a) == IF IsNaN(a) THEN NaN ELSE IF IsInf(a) THEN Inf(0 - a.v) ELSE Fin(0 - a.v)

FAdd(a, b) ==
    IF IsNaN(a) \/ IsNaN(b) THEN NaN
    ELSE IF IsInf(a) /\ IsInf(b) THEN (IF a.v = b.v THEN a ELSE NaN)
    ELSE IF IsInf(a) THEN a
    ELSE IF IsInf(b) THEN b
    ELSE Fin(a.v + b.v)

FSub(a, b) == FAdd(a, FNeg(b))

FMul(a, b) ==
    IF IsNaN(a) \/ IsNaN(b) THEN NaN
    ELSE IF IsInf(a) \/ IsInf(b)
         THEN (IF FSgn(a) = 0 \/ FSgn(b) = 0 THEN NaN ELSE Inf(FSgn(a) * FSgn(b)))
    ELSE Fin(IF Abs(a.v) >= Abs(b.v) THEN MulDiv(a.v, b.v, SCALE)
                               ELSE MulDiv(b.v, a.v, SCALE))

\* numpy float division: 0/0 and inf/inf are NaN, x/0 is +-Inf, nothing raises.
FDiv(a, b) ==
    IF IsNaN(a) \/ IsNaN(b) THEN NaN
    ELSE IF IsInf(a) THEN (IF IsInf(b) THEN NaN
                           ELSE Inf(a.v * (IF b.v < 0 THEN 0 - 1 ELSE 1)))
    ELSE IF IsInf(b) THEN Fin(0)
    ELSE IF b.v = 0 THEN (IF a.v = 0 THEN NaN ELSE Inf(Sgn(a.v)))
    ELSE Fin(Sgn(b.v) * MulDiv(a.v, SCALE, Abs(b.v)))

RECURSIVE ISqrtR(_, _, _)
\* The largest r in lo..hi with r * r <= x (lo * lo <= x).
ISqrtR(x, lo, hi) ==
    IF lo >= hi THEN lo
    ELSE LET mid == (lo + hi + 1) \div 2
         IN  IF mid * mid <= x THEN ISqrtR(x, mid, hi) ELSE ISqrtR(x, lo, mid - 1)

ISqrt(x) == ISqrtR(x, 0, IF x < 46340 THEN x ELSE 46340)

\* np.sqrt: NaN (with a warning) for a negative argument.
FSqrt(a) ==
    IF IsNaN(a) THEN NaN
    ELSE IF IsInf(a) THEN (IF a.v > 0 THEN a ELSE NaN)
    ELSE IF a.v < 0 THEN NaN
    ELSE Fin(ISqrt(a.v * SCALE))

\* np.sign: NaN for NaN, else -1.0, 0.0 or 1.0.
FSign(a) == IF IsNaN(a) THEN NaN ELSE OfInt(FSgn(a))

\* a <= b as Python compares floats: False when either is NaN.
FLeq(a, b) ==
    IF IsNaN(a) \/ IsNaN(b) THEN FALSE
    ELSE IF IsInf(a) THEN (a.v < 0 \/ (IsInf(b) /\ b.v > 0))
    ELSE IF IsInf(b) THEN b.v > 0
    ELSE a.v <= b.v


\* ------------------------------------------------- library functions
RECURSIVE SumSeq(_)
SumSeq(s) == IF s = << >> THEN 0 ELSE Head(s) + SumSeq(Tail(s))

\* The element-wise product of two sequences of one length.
Prod(s, t) == [i \in 1..Len(s) |-> s[i] * t[i]]

\* k * s, element-wise.
Times(f, s) == [i \in 1..Len(s) |-> f * s[i]]

\* ndarray.mean() of a non-empty array.
Mean(s) == Fin(TruncDiv(SumSeq(s) * SCALE, Len(s)))

\* n times the sum of the products of the deviations of s and t from their
\* means, which is an integer: n*sum(s*t) - sum(s)*sum(t).
NDev(s, t) == Len(s) * SumSeq(Prod(s, t)) - SumSeq(s) * SumSeq(t)

\* One entry of np.cov (ddof = 1) for two arrays of one length n >= 1: the sum of
\* the products of the deviations over n - 1, and NaN (with a warning) when
\* n = 1, where numpy multiplies 0 by 1/0.
CovEntry(s, t) ==
    IF Len(s) < 2 THEN NaN
    ELSE Fin(TruncDiv(NDev(s, t) * SCALE, Len(s) * (Len(s) - 1)))

\* Mutant of Cov: the longer array is cut to the length of the shorter one
\* instead of raising.
CovTruncating(x, y) ==
    LET l == IF Len(x) < Len(y) THEN Len(x) ELSE Len(y)
        xs == SubSeq(x, 1, l)
        ys == SubSeq(y, 1, l)
    IN  [raised |-> FALSE, xx |-> CovEntry(xs, xs), yy |-> CovEntry(ys, ys),
         xy |-> CovEntry(xs, ys)]

\* np.cov(X, Y) of two one-dimensional arrays: numpy stacks them and raises
\* ValueError when their lengths differ.
Cov(x, y) ==
    IF Len(x) # Len(y) THEN [raised |-> TRUE, xx |-> NaN, yy |-> NaN, xy |-> NaN]
    ELSE [raised |-> FALSE, xx |-> CovEntry(x, x), yy |-> CovEntry(y, y),
          xy |-> CovEntry(x, y)]

\* Mutant of Clip: the correlation is not clipped.
ClipNone(a) == a

\* np.clip(c, -1, 1): NaN stays NaN.
Clip(a) ==
    IF IsNaN(a) THEN a
    ELSE IF FLeq(OfInt(1), a) THEN OfInt(1)
    ELSE IF FLeq(a, OfInt(0 - 1)) THEN OfInt(0 - 1)
    ELSE a

\* np.corrcoef(X, Y)[0, 1]: the covariance divided by the two standard
\* deviations (the square roots of the diagonal of np.cov), then clipped.
Corrcoef(x, y) ==
    LET c == Cov(x, y)
    IN  Clip(FDiv(FDiv(c.xy, FSqrt(c.xx)), FSqrt(c.yy)))

\* Student's t upper quantiles in 1/10000, by degrees of freedom.
T025 == <<127062, 43027, 31824, 27764>>
T250 == <<10000, 8165, 7649, 7407>>
\* F(1, df) upper quantiles in 1/10000, by denominator degrees of freedom.
F050 == <<1614476, 185128, 101280, 77086>>
F500 == <<10000, 6667, 5851, 5486>>

OfTable(x) == Fin(MulDiv(x, SCALE, 10000))

\* stats.t.isf(alpha / 2, df), alpha in hundredths: NaN for df <= 0 or a
\* probability outside [0, 1], +Inf at probability 0, -Inf at 1, and the
\* tabulated quantile for the values of Alphas inside (the last branch is
\* reached by none of them).
TIsf(alpha, df) ==
    IF df <= 0 \/ alpha < 0 \/ alpha > 200 THEN NaN
    ELSE IF alpha = 0 THEN Inf(1)
    ELSE IF alpha = 200 THEN Inf(0 - 1)
    ELSE IF alpha = 100 THEN Fin(0)
    ELSE IF alpha = 5 THEN OfTable(T025[df])
    ELSE IF alpha = 50 THEN OfTable(T250[df])
    ELSE IF alpha = 150 THEN FNeg(OfTable(T250[df]))
    ELSE NaN

\* stats.f.isf(alpha, 1, df), alpha in hundredths: NaN for df <= 0 or a
\* probability outside [0, 1], +Inf at probability 0, 0 at 1, and the
\* tabulated quantile for the values of Alphas inside (the last branch is
\* reached by none of them).
FIsf(alpha, df) ==
    IF df <= 0 \/ alpha < 0 \/ alpha > 100 THEN NaN
    ELSE IF alpha = 0 THEN Inf(1)
    ELSE IF alpha = 100 THEN Fin(0)
    ELSE IF alpha = 5 THEN OfTable(F050[df])
    ELSE IF alpha = 50 THEN OfTable(F500[df])
    ELSE NaN

\* ------------------------------------------------- RMARegression, by phase
\* Lines 59-61: the sums of squares and cross-products from the covariances.
SumsOfSquares(c, n) ==
    [SCX |-> FMul(c.xx, OfInt(n - 1)),
     SCY |-> FMul(c.yy, OfInt(n - 1)),
     SCP |-> FMul(c.xy, OfInt(n - 1))]

\* Mutant of Slope: the square root is left out.
SlopeNoSqrt(r, SCY, SCX) == FMul(FSign(r), FDiv(SCY, SCX))

\* Line 66: v = np.sign(r) * np.sqrt(SCY / SCX).
Slope(r, SCY, SCX) == FMul(FSign(r), FSqrt(FDiv(SCY, SCX)))

\* Lines 67, 77, 78, 91, 92: Y.mean() - X.mean() * slope.
Intercept(x, y, slope) == FSub(Mean(y), FMul(Mean(x), slope))

\* Lines 70-72: the standard error of the slope.
StdErr(ss, n) ==
    LET SCv == FSub(ss.SCY, FDiv(FMul(ss.SCP, ss.SCP), ss.SCX))
        N == FDiv(SCv, OfInt(n - 2))
    IN  FSqrt(FDiv(N, ss.SCX))

\* Mutant of Ricker: each intercept bound is computed from the slope bound of
\* its own side.
RickerSamePairing(x, y, alpha, n, ss, slope) ==
    LET sv == StdErr(ss, n)
        t == TIsf(alpha, n - 2)
        vi == FSub(slope, FMul(t, sv))
        vs == FAdd(slope, FMul(t, sv))
        ui == Intercept(x, y, vi)
        us == Intercept(x, y, vs)
    IN  << <<ui, us>>, <<vi, vs>> >>

\* Lines 70-79: bintr, the rows [ui, us] and [vi, vs] (Ricker).
Ricker(x, y, alpha, n, ss, slope) ==
    LET sv == StdErr(ss, n)
        t == TIsf(alpha, n - 2)
        vi == FSub(slope, FMul(t, sv))
        vs == FAdd(slope, FMul(t, sv))
        ui == Intercept(x, y, vs)
        us == Intercept(x, y, vi)
    IN  << <<ui, us>>, <<vi, vs>> >>

\* Lines 84-85: B = F * (1 - r ** 2) / (n - 2).
BOf(alpha, n, r) ==
    FDiv(FMul(FIsf(alpha, n - 2), FSub(OfInt(1), FMul(r, r))), OfInt(n - 2))

\* Lines 81-93: bintjm, the rows [pi, ps] and [qi, qs]
\* (Jolicoeur-Mosimann/McArdle).
JolicoeurMosimann(x, y, alpha, n, r, slope) ==
    LET B == BOf(alpha, n, r)
        a == FSqrt(FAdd(B, OfInt(1)))
        c == FSqrt(B)
        qi == FMul(slope, FSub(a, c))
        qs == FMul(slope, FAdd(a, c))
        pi == Intercept(x, y, qs)
        ps == Intercept(x, y, qi)
    IN  << <<pi, ps>>, <<qi, qs>> >>

\* Mutant of MakeResult: ci reports alpha instead of 1 - alpha.
MakeResultCiAlpha(b, alpha, bintr, bintjm, r) ==
    [slope |-> b[2], intercept |-> b[1],
     ci |-> OfPct(alpha),
     intercept_ci1 |-> bintr[1], slope_ci1 |-> bintr[2],
     intercept_ci2 |-> bintjm[1], slope_ci2 |-> bintjm[2],
     RSquare |-> FMul(r, r)]

\* Line 96: the record returned.  Row 0 of bintr and bintjm is the intercept
\* interval and row 1 the slope interval; index 1 here is Python's 0.
MakeResult(b, alpha, bintr, bintjm, r) ==
    [slope |-> b[2], intercept |-> b[1],
     ci |-> FSub(OfInt(1), OfPct(alpha)),
     intercept_ci1 |-> bintr[1], slope_ci1 |-> bintr[2],
     intercept_ci2 |-> bintjm[1], slope_ci2 |-> bintjm[2],
     RSquare |-> FMul(r, r)]

NoResult == [slope |-> Unset, intercept |-> Unset, ci |-> Unset,
             intercept_ci1 |-> <<Unset, Unset>>, slope_ci1 |-> <<Unset, Unset>>,
             intercept_ci2 |-> <<Unset, Unset>>, slope_ci2 |-> <<Unset, Unset>>,
             RSquare |-> Unset]

\* The whole call: what it raises, or the record it returns.
RMARegression(x, y, alpha) ==
    LET n == Len(y)
        c == Cov(x, y)
    IN  IF c.raised THEN [exc |-> "ValueError", rec |-> NoResult]
        ELSE LET ss == SumsOfSquares(c, n)
                 r == Corrcoef(x, y)
                 v == Slope(r, ss.SCY, ss.SCX)
                 u == Intercept(x, y, v)
             IN  [exc |-> "none",
                  rec |-> MakeResult(<<u, v>>, alpha,
                                     Ricker(x, y, alpha, n, ss, v),
                                     JolicoeurMosimann(x, y, alpha, n, r, v), r)]

\* ------------------------------------------------- the call, step by step
VARIABLES X, Y, alpha, pc, n, S, r, b, bintr, bintjm, exc, result, factors, scaled

vars == <<X, Y, alpha, pc, n, S, r, b, bintr, bintjm, exc, result, factors, scaled>>

\* The non-empty sequences over Vals of length at most MaxLen.
Samples == UNION {[1..l -> Vals] : l \in 1..MaxLen}

NoRow == <<Unset, Unset>>
NoCov == [raised |-> FALSE, xx |-> Unset, yy |-> Unset, xy |-> Unset]
NoCall == [exc |-> "none", rec |-> NoResult]

\* The sums of squares of lines 59-61, once S is assigned.
SS == SumsOfSquares(S, n)

Init ==
    /\ X \in Samples
    /\ Y \in Samples
    /\ alpha \in Alphas
    /\ pc = "call"
    /\ n = 0
    /\ S = NoCov
    /\ r = Unset
    /\ b = NoRow
    /\ bintr = <<NoRow, NoRow>>
    /\ bintjm = <<NoRow, NoRow>>
    /\ exc = "none"
    /\ result = NoResult
    /\ factors = <<0, 0>>
    /\ scaled = NoCall

\* Lines 55-57: n = len(Y).
Enter ==
    /\ pc = "call"
    /\ n' = Len(Y)
    /\ pc' = "cov"
    /\ UNCHANGED <<X, Y, alpha, S, r, b, bintr, bintjm, exc, result, factors, scaled>>

\* Line 58, X and Y of different lengths: np.cov raises and the call ends.
CovRaises ==
    /\ pc = "cov"
    /\ Cov(X, Y).raised
    /\ exc' = "ValueError"
    /\ pc' = "raised"
    /\ UNCHANGED <<X, Y, alpha, n, S, r, b, bintr, bintjm, result, factors, scaled>>

\* Lines 58-61: S, then SCX, SCY and SCP.
CovStep ==
    /\ pc = "cov"
    /\ ~Cov(X, Y).raised
    /\ S' = Cov(X, Y)
    /\ pc' = "corr"
    /\ UNCHANGED <<X, Y, alpha, n, r, b, bintr, bintjm, exc, result, factors, scaled>>

\* Lines 63-64.
CorrStep ==
    /\ pc = "corr"
    /\ r' = Corrcoef(X, Y)
    /\ pc' = "point"
    /\ UNCHANGED <<X, Y, alpha, n, S, b, bintr, bintjm, exc, result, factors, scaled>>

\* Lines 66-68: b = [u, v].
PointStep ==
    /\ pc = "point"
    /\ LET v == Slope(r, SS.SCY, SS.SCX)
       IN  b' = <<Intercept(X, Y, v), v>>
    /\ pc' = "ricker"
    /\ UNCHANGED <<X, Y, alpha, n, S, r, bintr, bintjm, exc, result, factors, scaled>>

\* Lines 70-79.
RickerStep ==
    /\ pc = "ricker"
    /\ bintr' = Ricker(X, Y, alpha, n, SS, b[2])
    /\ pc' = "jm"
    /\ UNCHANGED <<X, Y, alpha, n, S, r, b, bintjm, exc, result, factors, scaled>>

\* Lines 81-93: r is computed again, then bintjm.
JMStep ==
    /\ pc = "jm"
    /\ r' = Corrcoef(X, Y)
    /\ bintjm' = JolicoeurMosimann(X, Y, alpha, n, r', b[2])
    /\ pc' = "return"
    /\ UNCHANGED <<X, Y, alpha, n, S, b, bintr, exc, result, factors, scaled>>

\* Line 96.
Return ==
    /\ pc = "return"
    /\ result' = MakeResult(b, alpha, bintr, bintjm, r)
    /\ pc' = "returned"
    /\ UNCHANGED <<X, Y, alpha, n, S, r, b, bintr, bintjm, exc, factors, scaled>>

\* The input RMARegression is documented for: at least three pairs, alpha
\* inside (0, 1), and neither X nor Y constant (so that r is defined).
ValidSample(x, y) ==
    /\ Len(x) = Len(y)
    /\ Len(y) >= 3
    /\ NDev(x, x) # 0
    /\ NDev(y, y) # 0

Valid(x, y, a) == ValidSample(x, y) /\ a > 0 /\ a < 100

\* A second call, on (k*X, m*Y) with the same alpha, after a valid first one.
Rescaled ==
    /\ pc = "returned"
    /\ Valid(X, Y, alpha)
    /\ \E k \in 1..MaxFactor, m \in 1..MaxFactor :
          /\ factors' = <<k, m>>
          /\ scaled' = RMARegression(Times(k, X), Times(m, Y), alpha)
    /\ pc' = "rescaled"
    /\ UNCHANGED <<X, Y, alpha, n, S, r, b, bintr, bintjm, exc, result>>

Next ==
    \/ Enter
    \/ CovRaises
    \/ CovStep
    \/ CorrStep
    \/ PointStep
    \/ RickerStep
    \/ JMStep
    \/ Return
    \/ Rescaled

Spec == Init /\ [][Next]_vars

\* The step-by-step call and the whole-call operator agree.
StepsAgree == pc \in {"returned", "rescaled"} => RMARegression(X, Y, alpha).rec = result

\* ------------------------------------------------- claims
\* An interval <<lower, upper>> is ordered.
Ordered(ci) == FLeq(ci[1], ci[2])

\* x lies in the interval ci read as <<lower, upper>>.
Within(x, ci) == FLeq(ci[1], x) /\ FLeq(x, ci[2])

Returned == pc \in {"returned", "rescaled"}

\* X and Y lie exactly on one line: the residual sum of squares is zero and the
\* width of the intervals is rounding alone.
Collinear(x, y) == NDev(x, y) * NDev(x, y) = NDev(x, x) * NDev(y, y)

\* C1: for every valid input, each of the four returned intervals is ordered
\* lower <= upper, negative slopes and negative means of X included.  Stated
\* for the samples that are not collinear, where rounding does not decide it.
C1_IntervalsOrdered ==
    (Returned /\ Valid(X, Y, alpha) /\ ~Collinear(X, Y)) =>
        /\ Ordered(result.slope_ci1)
        /\ Ordered(result.slope_ci2)
        /\ Ordered(result.intercept_ci1)
        /\ Ordered(result.intercept_ci2)

\* C2: for every valid input, the slope lies within both slope intervals read
\* as [lower, upper].  Stated for the samples that are not collinear.
C2_SlopeWithinIntervals ==
    (Returned /\ Valid(X, Y, alpha) /\ ~Collinear(X, Y)) =>
        /\ Within(result.slope, result.slope_ci1)
        /\ Within(result.slope, result.slope_ci2)

\* The call has ended, by returning or by raising.
Ended == Returned \/ pc = "raised"

\* C3: when the variance of X is zero the call fails with DegenerateSample and
\* returns no record (so none with a NaN or infinite field).  Stated for inputs
\* that are valid otherwise.
C3_DegenerateSampleRaised ==
    (/\ Len(X) = Len(Y)
     /\ Len(Y) >= 3
     /\ alpha > 0
     /\ alpha < 100
     /\ NDev(X, X) = 0
     /\ Ended) => (pc = "raised" /\ exc = "DegenerateSample")

\* C4: with fewer than three pairs the call fails with InsufficientSample before
\* a t- or F-quantile is computed, and returns no record.  Stated for inputs
\* that are valid otherwise (alpha inside (0, 1), neither sample constant).
C4_InsufficientSampleRaised ==
    (/\ Len(X) = Len(Y)
     /\ Len(Y) < 3
     /\ alpha > 0
     /\ alpha < 100
     /\ NDev(X, X) # 0
     /\ NDev(Y, Y) # 0) =>
        /\ pc \notin {"jm", "return", "returned", "rescaled"}
        /\ Ended => (pc = "raised" /\ exc = "InsufficientSample")

\* C5: with alpha outside the open interval (0, 1) the call fails with
\* InvalidAlpha and returns no record.  Stated for samples that are valid.
C5_InvalidAlphaRaised ==
    (/\ ValidSample(X, Y)
     /\ (alpha <= 0 \/ alpha >= 100)
     /\ Ended) => (pc = "raised" /\ exc = "InvalidAlpha")

Tol == SCALE \div 100

\* C7: for every valid input RSquare is the squared Pearson correlation of X
\* and Y (the squared sum of cross-products over the product of the sums of
\* squares, up to rounding) and lies in [0, 1].
C7_RSquareBounded ==
    (Returned /\ Valid(X, Y, alpha)) =>
        /\ IsFin(result.RSquare)
        /\ 0 <= result.RSquare.v
        /\ result.RSquare.v <= SCALE
        /\ Abs(result.RSquare.v * NDev(X, X) * NDev(Y, Y)
               - SCALE * NDev(X, Y) * NDev(X, Y))
             <= Tol * NDev(X, X) * NDev(Y, Y)

C7_Witness ==
    /\ Returned
    /\ Valid(X, Y, alpha)
    /\ result.RSquare.v > 0
    /\ result.RSquare.v < SCALE

\* C8: for every valid input and positive k and m, the call on (k*X, m*Y) with
\* the same alpha returns m/k times the slope, m times the intercept and the
\* same RSquare, up to rounding (the rounding of the slope reaches the
\* intercept multiplied by the mean of k*X, hence the factor k there).
C8_ScaleInvariance ==
    pc = "rescaled" =>
        LET k == factors[1]
            m == factors[2]
            q == scaled.rec
        IN  /\ scaled.exc = "none"
            /\ IsFin(q.slope) /\ IsFin(q.intercept) /\ IsFin(q.RSquare)
            /\ Abs(k * q.slope.v - m * result.slope.v) <= k * Tol
            /\ Abs(q.intercept.v - m * result.intercept.v) <= k * m * Tol
            /\ Abs(q.RSquare.v - result.RSquare.v) <= Tol

C8_Witness ==
    /\ pc = "rescaled"
    /\ factors[1] # factors[2]
    /\ factors[1] > 1
    /\ result.slope.v < 0
    /\ result.intercept.v # 0

\* C9: every call that returns reports ci = 1 - alpha, whatever X and Y are.
C9_CiIsOneMinusAlpha ==
    Returned => (IsFin(result.ci) /\ result.ci.v = SCALE - OfPct(alpha).v)

C9_Witness == Returned /\ alpha = 5 /\ result.ci = OfPct(95)

\* C10: in both methods the first intercept bound is mean(Y) - mean(X) * the
\* second slope bound of that method and the second intercept bound is
\* mean(Y) - mean(X) * the first slope bound; intercept_ci1 goes with slope_ci1
\* and intercept_ci2 with slope_ci2.
C10_CrossPairing ==
    Returned =>
        /\ result.intercept_ci1[1] = FSub(Mean(Y), FMul(Mean(X), result.slope_ci1[2]))
        /\ result.intercept_ci1[2] = FSub(Mean(Y), FMul(Mean(X), result.slope_ci1[1]))
        /\ result.intercept_ci2[1] = FSub(Mean(Y), FMul(Mean(X), result.slope_ci2[2]))
        /\ result.intercept_ci2[2] = FSub(Mean(Y), FMul(Mean(X), result.slope_ci2[1]))
        /\ result.slope_ci1 = <<FSub(result.slope, FMul(TIsf(alpha, n - 2), StdErr(SS, n))),
                                FAdd(result.slope, FMul(TIsf(alpha, n - 2), StdErr(SS, n)))>>

C10_Witness ==
    /\ Returned
    /\ Valid(X, Y, alpha)
    /\ SumSeq(X) # 0
    /\ result.slope_ci1[1] # result.slope_ci1[2]
    /\ result.slope_ci2[1] # result.slope_ci2[2]
    /\ result.slope_ci1 # result.slope_ci2
    /\ result.intercept_ci1[1] # result.intercept_ci1[2]

=============================================================================
